---------------------------- MODULE Spec2Model ----------------------------
(***************************************************************************)
(* A model of the completion engine of egui_code_editor:                   *)
(*   src/src/completer/custom_types.rs  (CompletionItem, CustomTypeRegistry)*)
(*   src/src/completer/mod.rs           (Completer::handle_input, ::show)  *)
(*                                                                         *)
(* A Rust String is modelled as a sequence of characters.  A character is  *)
(* an atom; Utf8Len gives the number of bytes it occupies, because the     *)
(* code mixes byte offsets (str::find, str::rfind, str::len) with          *)
(* character offsets (the editor's cursor index).                          *)
(***************************************************************************)
EXTENDS Integers, Sequences, FiniteSets, TLC

(***************************************************************************)
(* Bounds of the model.                                                    *)
(***************************************************************************)
MaxMethods == 2
MaxText == 3
MaxSnippet == 4

(***************************************************************************)
(* Characters.  NotSign stands for U+00AC, a two-byte character that is    *)
(* not alphanumeric; the others are ASCII.                                 *)
(***************************************************************************)
NotSign == "U+00AC"

Utf8Len(c) == IF c = NotSign THEN 2 ELSE 1

CodePoint(c) ==
    CASE c = " " -> 32
      [] c = "$" -> 36
      [] c = "(" -> 40
      [] c = "." -> 46
      [] c = ":" -> 58
      [] c = "_" -> 95
      [] c = "a" -> 97
      [] c = "b" -> 98
      [] c = NotSign -> 172

is_alphanumeric(c) == c \in {"a", "b"}

is_whitespace(c) == c = " "

(***************************************************************************)
(* Option<T>: None is the empty sequence, Some(x) the one-element sequence.*)
(***************************************************************************)
None == << >>

Some(x) == << x >>

is_some(o) == o # None

unwrap(o) == o[1]

(***************************************************************************)
(* str operations.                                                         *)
(***************************************************************************)
RECURSIVE len(_)
len(s) == IF s = << >> THEN 0 ELSE Utf8Len(Head(s)) + len(Tail(s))

starts_with(s, p) == Len(p) <= Len(s) /\ SubSeq(s, 1, Len(p)) = p

contains(s, c) == \E i \in 1..Len(s) : s[i] = c

\* character index (1-based) of the last occurrence of c in s, 0 when absent
LastIndex(s, c) ==
    IF contains(s, c)
    THEN CHOOSE i \in 1..Len(s) : s[i] = c /\ \A j \in (i+1)..Len(s) : s[j] # c
    ELSE 0

\* character index (1-based) of the first occurrence of c in s, 0 when absent
FirstIndex(s, c) ==
    IF contains(s, c)
    THEN CHOOSE i \in 1..Len(s) : s[i] = c /\ \A j \in 1..(i-1) : s[j] # c
    ELSE 0

\* str::rsplit_once(c): None, or Some(<<left, right>>) around the last c
rsplit_once(s, c) ==
    LET i == LastIndex(s, c)
    IN  IF i = 0 THEN None
        ELSE Some(<< SubSeq(s, 1, i - 1), SubSeq(s, i + 1, Len(s)) >>)

\* str::find(c): None, or Some(byte offset of the first c)
find(s, c) ==
    LET i == FirstIndex(s, c)
    IN  IF i = 0 THEN None ELSE Some(len(SubSeq(s, 1, i - 1)))

\* str::replace(c, ""): every c removed
RECURSIVE replace(_, _)
replace(s, c) ==
    IF s = << >> THEN << >>
    ELSE IF Head(s) = c THEN replace(Tail(s), c)
    ELSE << Head(s) >> \o replace(Tail(s), c)

RECURSIVE trim_start(_)
trim_start(s) ==
    IF s # << >> /\ is_whitespace(Head(s)) THEN trim_start(Tail(s)) ELSE s

RECURSIVE trim_end(_)
trim_end(s) ==
    IF s # << >> /\ is_whitespace(s[Len(s)])
    THEN trim_end(SubSeq(s, 1, Len(s) - 1))
    ELSE s

trim(s) == trim_end(trim_start(s))

(***************************************************************************)
(* The order of String keys in a BTreeMap / BTreeSet: lexicographic by     *)
(* bytes, which for UTF-8 is lexicographic by code point.                  *)
(***************************************************************************)
RECURSIVE StrLess(_, _)
StrLess(s, t) ==
    IF t = << >> THEN FALSE
    ELSE IF s = << >> THEN TRUE
    ELSE IF Head(s) = Head(t) THEN StrLess(Tail(s), Tail(t))
    ELSE CodePoint(Head(s)) < CodePoint(Head(t))

\* the keys of a set in BTree iteration order
RECURSIVE SortedKeys(_)
SortedKeys(S) ==
    IF S = {} THEN << >>
    ELSE LET m == CHOOSE x \in S : \A y \in S \ {x} : StrLess(x, y)
         IN  << m >> \o SortedKeys(S \ {m})

\* all sequences over S of length at most n
SeqsUpTo(S, n) == UNION { [1..k -> S] : k \in 0..n }

(***************************************************************************)
(* State.                                                                  *)
(*   types, globals   CustomTypeRegistry                                   *)
(*   hashOrder        the iteration order of the HashMap `types`           *)
(*   q_prefix, q_result   the last direct call of get_completions          *)
(*   q_methods        the member list the last registration was given,     *)
(*                    recorded under SpecMembers                           *)
(*   prefix .. completions   the fields of Completer                       *)
(*   text, primary    the host editor's buffer and cursor (char index)     *)
(*   changed          response.changed() of the frame's widget pass        *)
(*   events           the input events handle_input pushed for the widget  *)
(*   pc               where the frame is: handle_input, widget, show       *)
(*   popup            whether show drew the completion popup               *)
(*   consumed         the key handle_input consumed in this frame          *)
(*   fault            the panic that ended the process, if any             *)
(***************************************************************************)
VARIABLES types, globals, hashOrder, q_prefix, q_result, q_methods,
          prefix, prefix_range, cursor, ignore_cursor, trie_syntax, trie_user,
          variant_id, completions,
          text, primary, changed, events, pc, popup, consumed, fault

registryVars == << types, globals, hashOrder >>

queryVars == << q_prefix, q_result, q_methods >>

completerVars ==
    << prefix, prefix_range, cursor, ignore_cursor, trie_syntax, trie_user,
       variant_id, completions >>

hostVars == << text, primary, changed, events, pc, popup, consumed, fault >>

vars == << registryVars, queryVars, completerVars, hostVars >>

Dot == "Dot"

Colon == "Colon"

(***************************************************************************)
(* CompletionItem and its constructors.                                    *)
(***************************************************************************)
CompletionItem_new(display) ==
    [display |-> display, snippet |-> None, documentation |-> None]

with_snippet(display, snippet) ==
    [display |-> display, snippet |-> Some(snippet), documentation |-> None]

with_snippet_and_docs(display, snippet, documentation) ==
    [display |-> display, snippet |-> Some(snippet),
     documentation |-> Some(documentation)]

with_docs(display, documentation) ==
    [display |-> display, snippet |-> None,
     documentation |-> Some(documentation)]

\* CompletionItem::insert_text: the snippet if there is one, else display
insert_text(item) ==
    IF is_some(item.snippet) THEN unwrap(item.snippet) ELSE item.display

(***************************************************************************)
(* Maps.  A BTreeMap or HashMap is a function on its key set; insert       *)
(* overwrites.  collect() of (key, value) pairs inserts them in order, so  *)
(* a later pair with the same key replaces an earlier one.                 *)
(***************************************************************************)
EmptyMap == << >>

MapInsert(m, k, v) ==
    [x \in (DOMAIN m) \cup {k} |-> IF x = k THEN v ELSE m[x]]

\* a variant of Collect in which the first pair of a key is kept
RECURSIVE Collect_FirstWins(_)
Collect_FirstWins(pairs) ==
    IF pairs = << >> THEN EmptyMap
    ELSE MapInsert(Collect_FirstWins(Tail(pairs)), pairs[1][1], pairs[1][2])

RECURSIVE Collect(_)
Collect(pairs) ==
    IF pairs = << >> THEN EmptyMap
    ELSE LET n == Len(pairs)
         IN  MapInsert(Collect(SubSeq(pairs, 1, n - 1)), pairs[n][1], pairs[n][2])

\* the orders in which a HashMap with key set S may iterate
Orders(S) ==
    { p \in [1..Cardinality(S) -> S] : \A x \in S : \E i \in DOMAIN p : p[i] = x }

(***************************************************************************)
(* What registration calls are made with.                                  *)
(***************************************************************************)
TypeNames == { << "a" >>, << "a", "b" >> }

\* (name, snippet, docs) as given to register_type_with_snippets_and_style
MethodTuples ==
    { << << "b" >>, << "b", "$" >>, "D1" >>,
      << << "a", "b" >>, << "a", "b" >>, "D2" >> }

\* the member lists a type is registered with: every list for "a", one
\* list for "ab"
MethodLists(type_name) ==
    IF type_name = << "a" >>
    THEN SeqsUpTo(MethodTuples, MaxMethods)
    ELSE { << << << "a", "b" >>, << "a", "b" >>, "D2" >> >> }

GlobalNames == { << "a", ".", "b" >> }

GlobalSnippets == { None, Some(<< "a", "$", "b" >>) }

GlobalDocs == { None, Some("D3") }

(***************************************************************************)
(* CustomTypeRegistry: registration.                                       *)
(***************************************************************************)
\* a variant of InsertType that merges the new members into the members
\* a type already has
InsertType_MergesMembers(type_name, info) ==
    /\ types' = MapInsert(types, type_name,
                   IF type_name \in DOMAIN types
                   THEN [info EXCEPT !.items =
                            [m \in (DOMAIN types[type_name].items)
                                     \cup (DOMAIN info.items) |->
                                IF m \in DOMAIN info.items THEN info.items[m]
                                ELSE types[type_name].items[m]]]
                   ELSE info)
    /\ hashOrder' \in IF type_name \in DOMAIN types
                      THEN { hashOrder }
                      ELSE Orders((DOMAIN types) \cup { type_name })
    /\ UNCHANGED globals

\* HashMap::insert on `types`: a present key keeps its place in the
\* iteration order; a new key may land anywhere and move the others
InsertType(type_name, info) ==
    /\ types' = MapInsert(types, type_name, info)
    /\ hashOrder' \in IF type_name \in DOMAIN types
                      THEN { hashOrder }
                      ELSE Orders((DOMAIN types) \cup { type_name })
    /\ UNCHANGED globals

InsertGlobal(name, item) ==
    /\ globals' = MapInsert(globals, name, item)
    /\ UNCHANGED << types, hashOrder >>

register_type_simple(type_name, methods) ==
    InsertType(type_name,
        [items |-> Collect([i \in 1..Len(methods) |->
                        << methods[i][1], CompletionItem_new(methods[i][1]) >>]),
         syntax_style |-> Dot])

register_type_with_snippets_and_style(type_name, methods, syntax_style) ==
    InsertType(type_name,
        [items |-> Collect([i \in 1..Len(methods) |->
                        << methods[i][1],
                           with_snippet_and_docs(methods[i][1], methods[i][2],
                                                 methods[i][3]) >>]),
         syntax_style |-> syntax_style])

register_type_with_snippets(type_name, methods) ==
    register_type_with_snippets_and_style(type_name, methods, Dot)

register_type_snippets(type_name, methods) ==
    InsertType(type_name,
        [items |-> Collect([i \in 1..Len(methods) |->
                        << methods[i][1],
                           with_snippet(methods[i][1], methods[i][2]) >>]),
         syntax_style |-> Dot])

register_type_docs(type_name, methods) ==
    InsertType(type_name,
        [items |-> Collect([i \in 1..Len(methods) |->
                        << methods[i][1],
                           with_docs(methods[i][1], methods[i][3]) >>]),
         syntax_style |-> Dot])

register_global(name, snippet, documentation) ==
    InsertGlobal(name,
        IF is_some(snippet) /\ is_some(documentation)
        THEN with_snippet_and_docs(name, unwrap(snippet), unwrap(documentation))
        ELSE IF is_some(snippet) THEN with_snippet(name, unwrap(snippet))
        ELSE IF is_some(documentation) THEN with_docs(name, unwrap(documentation))
        ELSE CompletionItem_new(name))

(***************************************************************************)
(* CustomTypeRegistry: queries.                                            *)
(***************************************************************************)
has_colon_syntax ==
    \E t \in DOMAIN types : types[t].syntax_style = Colon

\* a variant of separator_and_type that tries ':' only while some type is
\* registered with colon style
separator_and_type_ColonGated(pre) ==
    IF is_some(rsplit_once(pre, "."))
    THEN Some(unwrap(rsplit_once(pre, ".")) \o << "." >>)
    ELSE IF has_colon_syntax /\ is_some(rsplit_once(pre, ":"))
    THEN Some(unwrap(rsplit_once(pre, ":")) \o << ":" >>)
    ELSE None

\* prefix.rsplit_once('.') or else prefix.rsplit_once(':'), as
\* None or Some(<<type_part, method_prefix, separator>>)
separator_and_type(pre) ==
    IF is_some(rsplit_once(pre, "."))
    THEN Some(unwrap(rsplit_once(pre, ".")) \o << "." >>)
    ELSE IF is_some(rsplit_once(pre, ":"))
    THEN Some(unwrap(rsplit_once(pre, ":")) \o << ":" >>)
    ELSE None

\* a variant of correct_separator that ignores the registered style
correct_separator_AlwaysDot(syntax_style) == "."

correct_separator(syntax_style) == IF syntax_style = Dot THEN "." ELSE ":"

\* the member branch: the members of type_name matching method_prefix,
\* in the BTreeMap's key order
MemberCompletions(type_name, method_prefix) ==
    LET type_info == types[type_name]
        Matches(method_name) ==
            method_prefix = << >> \/ starts_with(method_name, method_prefix)
        names == SelectSeq(SortedKeys(DOMAIN type_info.items), Matches)
    IN  [i \in 1..Len(names) |->
            << type_name \o << correct_separator(type_info.syntax_style) >>
                         \o names[i],
               type_info.items[names[i]] >>]

\* a variant of NameCompletions that lists the globals before the type names
NameCompletions_GlobalsFirst(pre) ==
    LET TMatches(type_name) == starts_with(type_name, pre)
        tnames == SelectSeq(hashOrder, TMatches)
        gnames == SelectSeq(SortedKeys(DOMAIN globals), TMatches)
    IN  [i \in 1..Len(gnames) |-> << gnames[i], globals[gnames[i]] >>]
        \o [i \in 1..Len(tnames) |-> << tnames[i], CompletionItem_new(tnames[i]) >>]

\* type names in the HashMap's order, then globals in the BTreeMap's order
NameCompletions(pre) ==
    LET TMatches(type_name) == starts_with(type_name, pre)
        tnames == SelectSeq(hashOrder, TMatches)
        gnames == SelectSeq(SortedKeys(DOMAIN globals), TMatches)
    IN  [i \in 1..Len(tnames) |-> << tnames[i], CompletionItem_new(tnames[i]) >>]
        \o [i \in 1..Len(gnames) |-> << gnames[i], globals[gnames[i]] >>]

\* a variant of get_completions that returns from the member branch only
\* when it found a member, and otherwise goes on to names
get_completions_FallsThroughWhenEmpty(pre) ==
    LET st == separator_and_type(pre)
    IN  IF /\ is_some(st)
           /\ trim(unwrap(st)[1]) \in DOMAIN types
           /\ MemberCompletions(trim(unwrap(st)[1]), unwrap(st)[2]) # << >>
        THEN MemberCompletions(trim(unwrap(st)[1]), unwrap(st)[2])
        ELSE NameCompletions(pre)

\* a variant of get_completions that returns nothing when the prefix
\* splits and the type part is not a registered type
get_completions_EmptyOnUnknownType(pre) ==
    LET st == separator_and_type(pre)
    IN  IF is_some(st)
        THEN IF trim(unwrap(st)[1]) \in DOMAIN types
             THEN MemberCompletions(trim(unwrap(st)[1]), unwrap(st)[2])
             ELSE << >>
        ELSE NameCompletions(pre)

\* a variant of get_completions that takes the member branch only when
\* the separator in the prefix is the one of the type's style
get_completions_OwnSeparatorOnly(pre) ==
    LET st == separator_and_type(pre)
    IN  IF /\ is_some(st)
           /\ trim(unwrap(st)[1]) \in DOMAIN types
           /\ unwrap(st)[3] =
                  correct_separator(types[trim(unwrap(st)[1])].syntax_style)
        THEN MemberCompletions(trim(unwrap(st)[1]), unwrap(st)[2])
        ELSE NameCompletions(pre)

get_completions(pre) ==
    LET st == separator_and_type(pre)
    IN  IF is_some(st) /\ trim(unwrap(st)[1]) \in DOMAIN types
        THEN MemberCompletions(trim(unwrap(st)[1]), unwrap(st)[2])
        ELSE NameCompletions(pre)

(***************************************************************************)
(* Trie (completer/trie.rs): a character tree whose nodes mark the end of  *)
(* a word.  nodes are the paths from the root, words the paths that end a  *)
(* word.                                                                   *)
(***************************************************************************)
Trie_default == [nodes |-> { << >> }, words |-> {}]

PathsOf(word) == { SubSeq(word, 1, k) : k \in 0..Len(word) }

push(trie, word) ==
    [nodes |-> trie.nodes \cup PathsOf(word), words |-> trie.words \cup { word }]

RECURSIVE PushAll(_, _)
PushAll(trie, words) ==
    IF words = {} THEN trie
    ELSE LET w == CHOOSE x \in words : TRUE
         IN  PushAll(push(trie, w), words \ { w })

\* a variant of find_completions that does not compare the words with
\* the prefix
find_completions_AnyWord(trie, p) ==
    IF p \notin trie.nodes THEN << >>
    ELSE SortedKeys({ SubSeq(w, Len(p) + 1, Len(w)) : w \in trie.words })

\* the suffixes that extend prefix to a word of the trie, in the order of
\* a traversal that follows the children in character order
find_completions(trie, p) ==
    IF p \notin trie.nodes THEN << >>
    ELSE SortedKeys({ SubSeq(w, Len(p) + 1, Len(w)) :
                        w \in { x \in trie.words : starts_with(x, p) } })

\* the keywords, types and special words of the Syntax the completer is
\* built with
SyntaxWords == { << "a", "b" >>, << "b", "a" >> }

\* impl From<&Syntax> for Trie (a case-sensitive Syntax)
Trie_from_syntax == PushAll(Trie_default, SyntaxWords)

\* the words of the tokens the tokenizer classifies Literal or Function:
\* the maximal runs of identifier characters
is_word_char(c) == is_alphanumeric(c) \/ c = "_"

Harvest(t) ==
    { SubSeq(t, ij[1], ij[2]) : ij \in
        { ij \in (1..Len(t)) \X (1..Len(t)) :
            /\ ij[1] <= ij[2]
            /\ \A k \in ij[1]..ij[2] : is_word_char(t[k])
            /\ (ij[1] = 1 \/ ~is_word_char(t[ij[1] - 1]))
            /\ (ij[2] = Len(t) \/ ~is_word_char(t[ij[2] + 1])) } }

(***************************************************************************)
(* Completer::handle_input, the pure parts.                                *)
(***************************************************************************)
\* lines 317-336: the trie suffixes made whole words, syntax trie first,
\* then the learned trie, then the registry's completions
TrieItems(suffixes) ==
    [i \in 1..Len(suffixes) |->
        << prefix \o suffixes[i], CompletionItem_new(prefix \o suffixes[i]) >>]

CandidateChain ==
    TrieItems(find_completions(trie_syntax, prefix)
              \o (IF is_some(trie_user)
                  THEN find_completions(unwrap(trie_user), prefix)
                  ELSE << >>))
    \o get_completions(prefix)

\* a variant of MergeCompletions that keeps the entries in the order in
\* which their displays were first seen
RECURSIVE MergeCompletions_FirstSeenOrder(_)
MergeCompletions_FirstSeenOrder(chain) ==
    IF chain = << >> THEN << >>
    ELSE LET n == Len(chain)
             before == MergeCompletions_FirstSeenOrder(SubSeq(chain, 1, n - 1))
         IN  IF \E j \in 1..(n - 1) : chain[j][1] = chain[n][1]
             THEN before
             ELSE Append(before, chain[n])

\* lines 338-356: a display already in the BTreeSet is not inserted in the
\* map again, so the first item of a display is kept; the result follows
\* the BTreeSet's order
MergeCompletions(chain) ==
    LET displays == SortedKeys({ chain[i][1] : i \in 1..Len(chain) })
        First(d) == CHOOSE i \in 1..Len(chain) :
                        chain[i][1] = d /\ \A j \in 1..(i-1) : chain[j][1] # d
    IN  [k \in 1..Len(displays) |-> << displays[k], chain[First(displays[k])][2] >>]

\* lines 381-406: what Tab deletes and inserts for the selected entry.
\* underflow: prefix_range.1 - prefix_range.0 with prefix_range.1 smaller
PlanEdit(display, item) ==
    IF is_some(rsplit_once(display, "."))
    THEN IF is_some(rsplit_once(prefix, "."))
         THEN [underflow |-> FALSE,
               delete_count |-> len(unwrap(rsplit_once(prefix, "."))[2]),
               insert |-> IF is_some(item.snippet)
                          THEN insert_text(item)
                          ELSE unwrap(rsplit_once(display, "."))[2]]
         ELSE [underflow |-> prefix_range[2] < prefix_range[1],
               delete_count |-> prefix_range[2] - prefix_range[1],
               insert |-> display]
    ELSE [underflow |-> prefix_range[2] < prefix_range[1],
          delete_count |-> prefix_range[2] - prefix_range[1],
          insert |-> insert_text(item)]

\* lines 409-414: the text without its markers, and the byte offset of the
\* first marker
MarkerSplit(insert) ==
    IF contains(insert, "$")
    THEN << replace(insert, "$"), find(insert, "$") >>
    ELSE << insert, None >>

\* CompletionItem::cursor_info
cursor_info(item) == MarkerSplit(insert_text(item))

\* line 431: final_text.len() - offset
move_back(final_text, cursor_offset) ==
    IF is_some(cursor_offset) THEN len(final_text) - unwrap(cursor_offset) ELSE 0

\* lines 416-441: the events pushed for the widget, in order
Backspace == << "Backspace" >>

ArrowLeft == << "ArrowLeft" >>

Paste(t) == << "Paste", t >>

\* a variant of EditEvents that pastes before it deletes
EditEvents_PasteFirst(delete_count, insert) ==
    LET split == MarkerSplit(insert)
    IN  << Paste(split[1]) >>
        \o [i \in 1..delete_count |-> Backspace]
        \o [i \in 1..move_back(split[1], split[2]) |-> ArrowLeft]

EditEvents(delete_count, insert) ==
    LET split == MarkerSplit(insert)
    IN  [i \in 1..delete_count |-> Backspace]
        \o << Paste(split[1]) >>
        \o [i \in 1..move_back(split[1], split[2]) |-> ArrowLeft]

(***************************************************************************)
(* Completer::handle_input.                                                *)
(***************************************************************************)
Keys == { "Escape", "ArrowDown", "ArrowUp", "Tab" }

\* the keys held in one frame: none, one, or all of them at once
KeySets == { {} } \cup { { k } : k \in Keys } \cup { Keys }

\* a variant of advance that stops at the last entry
advance_Saturating(id, last) == IF id + 1 < last THEN id + 1 ELSE last

\* lines 365-370: ArrowDown; saturating_add(1).min(last) below the last entry
advance(id, last) ==
    IF id = last THEN 0 ELSE IF id + 1 < last THEN id + 1 ELSE last

\* lines 371-376: ArrowUp; saturating_sub(1) above the first entry
retreat(id, last) == IF id = 0 THEN last ELSE id - 1

\* lines 362-443: what the key chain does with the keys pressed in this
\* frame, given the merged list.  variant_id counts from 0.
KeyOutcome(keys, merged) ==
    LET last == Len(merged) - 1
        same == [consumed |-> None, ignore_cursor |-> ignore_cursor,
                 variant_id |-> variant_id, events |-> << >>, fault |-> "none"]
    IN  IF "Escape" \in keys
        THEN [same EXCEPT !.consumed = Some("Escape"),
                          !.ignore_cursor = Some(cursor)]
        ELSE IF "ArrowDown" \in keys
        THEN [same EXCEPT !.consumed = Some("ArrowDown"),
                          !.variant_id = advance(variant_id, last)]
        ELSE IF "ArrowUp" \in keys
        THEN [same EXCEPT !.consumed = Some("ArrowUp"),
                          !.variant_id = retreat(variant_id, last)]
        ELSE IF "Tab" \in keys
        THEN IF variant_id < Len(merged)
             THEN LET plan == PlanEdit(merged[variant_id + 1][1],
                                       merged[variant_id + 1][2])
                  IN  IF plan.underflow
                      THEN [same EXCEPT !.consumed = Some("Tab"),
                                        !.fault = "underflow"]
                      ELSE [same EXCEPT !.consumed = Some("Tab"),
                                        !.events = EditEvents(plan.delete_count,
                                                              plan.insert)]
             ELSE [same EXCEPT !.consumed = Some("Tab")]
        ELSE same

\* a variant of completions_is_empty that lets the key chain run on any list
completions_is_empty_Never(merged) == FALSE

\* lines 358-360: self.completions.is_empty() after the merge
completions_is_empty(merged) == merged = << >>

\* a variant of the early return that does not look at the prefix
handle_input_returns_early_IgnoresPrefix ==
    is_some(ignore_cursor) /\ unwrap(ignore_cursor) = cursor

\* a variant of the early return that does not look at the ignore marker
handle_input_returns_early_IgnoresMarker == prefix = << >>

\* lines 308-315: nothing to complete, or dismissed at this cursor offset
handle_input_returns_early ==
    prefix = << >> \/ (is_some(ignore_cursor) /\ unwrap(ignore_cursor) = cursor)

\* a variant of HandleInput that pushes the prefix it completes into the
\* syntax trie
HandleInput_LearnsPrefix(keys) ==
    /\ pc = "input"
    /\ fault = "none"
    /\ pc' = "widget"
    /\ UNCHANGED << registryVars, queryVars, prefix, prefix_range, cursor,
                    trie_user, text, primary, changed, popup >>
    /\ IF handle_input_returns_early
       THEN /\ consumed' = None
            /\ UNCHANGED << trie_syntax, completions, variant_id,
                            ignore_cursor, events, fault >>
       ELSE LET merged == MergeCompletions(CandidateChain)
            IN  /\ completions' = merged
                /\ trie_syntax' = push(trie_syntax, prefix)
                /\ IF completions_is_empty(merged)
                   THEN /\ consumed' = None
                        /\ UNCHANGED << variant_id, ignore_cursor, events, fault >>
                   ELSE LET out == KeyOutcome(keys, merged)
                        IN  /\ consumed' = out.consumed
                            /\ ignore_cursor' = out.ignore_cursor
                            /\ variant_id' = out.variant_id
                            /\ events' = out.events
                            /\ fault' = out.fault

HandleInput(keys) ==
    /\ pc = "input"
    /\ fault = "none"
    /\ pc' = "widget"
    /\ UNCHANGED << registryVars, queryVars, prefix, prefix_range, cursor,
                    trie_syntax, trie_user, text, primary, changed, popup >>
    /\ IF handle_input_returns_early
       THEN /\ consumed' = None
            /\ UNCHANGED << completions, variant_id, ignore_cursor, events, fault >>
       ELSE LET merged == MergeCompletions(CandidateChain)
            IN  /\ completions' = merged
                /\ IF completions_is_empty(merged)
                   THEN /\ consumed' = None
                        /\ UNCHANGED << variant_id, ignore_cursor, events, fault >>
                   ELSE LET out == KeyOutcome(keys, merged)
                        IN  /\ consumed' = out.consumed
                            /\ ignore_cursor' = out.ignore_cursor
                            /\ variant_id' = out.variant_id
                            /\ events' = out.events
                            /\ fault' = out.fault

(***************************************************************************)
(* The host's text widget, between handle_input and show.                  *)
(***************************************************************************)
TypedChars == { "a", ".", ":", NotSign }

InsertAt(t, i, ins) == SubSeq(t, 1, i) \o ins \o SubSeq(t, i + 1, Len(t))

RemoveAt(t, i) == SubSeq(t, 1, i - 1) \o SubSeq(t, i + 1, Len(t))

\* the buffer and cursor after the widget handled the events in order
RECURSIVE ApplyEvents(_, _, _)
ApplyEvents(evs, t, c) ==
    IF evs = << >> THEN << t, c >>
    ELSE LET e == Head(evs)
         IN  IF e = Backspace
             THEN IF c > 0 THEN ApplyEvents(Tail(evs), RemoveAt(t, c), c - 1)
                  ELSE ApplyEvents(Tail(evs), t, c)
             ELSE IF e = ArrowLeft
             THEN ApplyEvents(Tail(evs), t, IF c > 0 THEN c - 1 ELSE 0)
             ELSE ApplyEvents(Tail(evs), InsertAt(t, c, e[2]), c + Len(e[2]))

WidgetFrame == << registryVars, queryVars, completerVars, popup, fault >>

WidgetApplyEvents ==
    /\ pc = "widget" /\ fault = "none"
    /\ events # << >>
    /\ UNCHANGED consumed
    /\ Len(ApplyEvents(events, text, primary)[1]) <= MaxText
    /\ text' = ApplyEvents(events, text, primary)[1]
    /\ primary' = ApplyEvents(events, text, primary)[2]
    /\ changed' = TRUE
    /\ events' = << >>
    /\ pc' = "show"
    /\ UNCHANGED WidgetFrame

WidgetType ==
    /\ pc = "widget" /\ fault = "none"
    /\ consumed' = None /\ events = << >>
    /\ Len(text) < MaxText
    /\ \E c \in TypedChars : text' = InsertAt(text, primary, << c >>)
    /\ primary' = primary + 1
    /\ changed' = TRUE
    /\ pc' = "show"
    /\ UNCHANGED << WidgetFrame, events >>

WidgetBackspace ==
    /\ pc = "widget" /\ fault = "none"
    /\ consumed' = None /\ events = << >>
    /\ primary > 0
    /\ text' = RemoveAt(text, primary)
    /\ primary' = primary - 1
    /\ changed' = TRUE
    /\ pc' = "show"
    /\ UNCHANGED << WidgetFrame, events >>

\* the Delete key: the content changes and the cursor stays
WidgetDelete ==
    /\ pc = "widget" /\ fault = "none"
    /\ consumed' = None /\ events = << >>
    /\ primary < Len(text)
    /\ text' = RemoveAt(text, primary + 1)
    /\ changed' = TRUE
    /\ pc' = "show"
    /\ UNCHANGED << WidgetFrame, events, primary >>

WidgetMove ==
    /\ pc = "widget" /\ fault = "none"
    /\ consumed' = None /\ events = << >>
    /\ \E c \in 0..Len(text) : c # primary /\ primary' = c
    /\ changed' = FALSE
    /\ pc' = "show"
    /\ UNCHANGED << WidgetFrame, events, text >>

WidgetIdle ==
    /\ pc = "widget" /\ fault = "none"
    /\ consumed' = None /\ events = << >>
    /\ changed' = FALSE
    /\ pc' = "show"
    /\ UNCHANGED << WidgetFrame, events, text, primary >>

(***************************************************************************)
(* Completer::show.                                                        *)
(***************************************************************************)
\* lines 510-516: a character that ends the completion context
is_context_boundary(c) ==
    /\ ~is_alphanumeric(c)
    /\ c # "_"
    /\ c # "."
    /\ ~(has_colon_syntax /\ c = ":")

\* lines 505-521 on the text before the cursor.  rfind gives a byte
\* offset; pos + 1 is a character boundary only when the character found
\* is one byte long, and slicing anywhere else panics.
ResolvePrefix(text_before_cursor) ==
    LET n == Len(text_before_cursor)
        hits == { k \in 1..n : is_context_boundary(text_before_cursor[k]) }
        k == IF hits = {} THEN 0
             ELSE CHOOSE x \in hits : \A y \in hits : y <= x
        context_start ==
            IF k = 0 THEN 0 ELSE len(SubSeq(text_before_cursor, 1, k - 1)) + 1
    IN  [panics |-> k > 0 /\ Utf8Len(text_before_cursor[k]) > 1,
         context_start |-> context_start,
         prefix |-> SubSeq(text_before_cursor, k + 1, n)]

\* a variant of next_char_allows that does not look at the selection
next_char_allows_IgnoresSelection(secondary) ==
    \/ primary >= Len(text)
    \/ ~(is_alphanumeric(text[primary + 1]) \/ text[primary + 1] = "_")

\* lines 496-500; secondary is the other end of the selection
next_char_allows(secondary) ==
    \/ primary >= Len(text)
    \/ ~(is_alphanumeric(text[primary + 1]) \/ text[primary + 1] = "_")
    \/ secondary > primary

\* a variant of RebuiltTrieUser that pushes the words without clearing
RebuiltTrieUser_KeepsOldWords ==
    IF changed /\ is_some(trie_user)
    THEN Some(PushAll(unwrap(trie_user), Harvest(text)))
    ELSE trie_user

\* lines 461-471: the learned trie after this pass
RebuiltTrieUser ==
    IF changed /\ is_some(trie_user)
    THEN Some(PushAll(Trie_default, Harvest(text)))
    ELSE trie_user

\* a variant of StillIgnored that never finds the marker set
StillIgnored_Never(marker, offset) == FALSE

\* line 489: ignore_cursor.is_some_and(|c| c == self.cursor)
StillIgnored(marker, offset) == is_some(marker) /\ unwrap(marker) = offset

\* a variant of cursor_differs that never sees the cursor move
cursor_differs_Never(recorded, reported) == FALSE

\* line 481: self.cursor != cursor.index
cursor_differs(recorded, reported) == recorded # reported

\* an editor that received input in this frame has the focus
Focus == IF changed \/ primary # cursor THEN { TRUE } ELSE BOOLEAN

Show(has_focus, secondary) ==
    /\ pc = "show"
    /\ fault = "none"
    /\ pc' = "input"
    /\ UNCHANGED << registryVars, queryVars, trie_syntax, text, primary,
                    events, consumed >>
    /\ changed' = FALSE
    /\ IF ~has_focus
       THEN /\ popup' = FALSE
            /\ UNCHANGED << prefix, prefix_range, cursor, ignore_cursor,
                            trie_user, variant_id, completions, fault >>
       ELSE LET moved == cursor_differs(cursor, primary)
                completions1 == IF moved THEN << >> ELSE completions
                ignore1 == IF moved THEN None ELSE ignore_cursor
            IN  /\ trie_user' = RebuiltTrieUser
                /\ cursor' = primary
                /\ completions' = completions1
                /\ variant_id' = IF moved THEN 0 ELSE variant_id
                /\ IF StillIgnored(ignore1, primary)
                   THEN /\ ignore_cursor' = ignore1
                        /\ prefix' = IF moved THEN << >> ELSE prefix
                        /\ popup' = FALSE
                        /\ UNCHANGED << prefix_range, fault >>
                   ELSE /\ ignore_cursor' = None
                        /\ IF next_char_allows(secondary)
                           THEN LET r == ResolvePrefix(SubSeq(text, 1, primary))
                                IN  IF r.panics
                                    THEN /\ fault' = "slice"
                                         /\ prefix' = IF moved THEN << >> ELSE prefix
                                         /\ popup' = FALSE
                                         /\ UNCHANGED prefix_range
                                    ELSE /\ prefix' = r.prefix
                                         /\ prefix_range' = << r.context_start, primary >>
                                         /\ popup' = (r.prefix # << >> /\ completions1 # << >>)
                                         /\ UNCHANGED fault
                           ELSE /\ prefix' = << >>
                                /\ prefix_range' = << primary, primary >>
                                /\ popup' = FALSE
                                /\ UNCHANGED fault

(***************************************************************************)
(* Registration calls on the completer, which the host makes between       *)
(* frames while the buffer is still empty.                                 *)
(***************************************************************************)
\* the members the completer's type "a" is registered with
CompleterMethods ==
    << << << "a", "b" >>, << "a", "$", "b" >>, "D2" >>,
       << << "b" >>, << "b" >>, "D1" >> >>

\* Completer::register_trait_type for a type "a" of either style
Completer_register_trait_type ==
    /\ pc = "input" /\ fault = "none" /\ text = << >>
    /\ \E st \in { Dot, Colon } :
           register_type_with_snippets_and_style(<< "a" >>, CompleterMethods, st)
    /\ UNCHANGED << queryVars, completerVars, hostVars >>

\* Completer::register_global for "ab", which is also a word of the Syntax
Completer_register_global ==
    /\ pc = "input" /\ fault = "none" /\ text = << >>
    /\ register_global(<< "a", "b" >>, Some(<< "a", "$", "b" >>), Some("D3"))
    /\ UNCHANGED << queryVars, completerVars, hostVars >>

(***************************************************************************)
(* The completer in its host: frames of handle_input, widget, show.        *)
(***************************************************************************)
InitCompleter ==
    /\ prefix = << >>
    /\ prefix_range = << 0, 0 >>
    /\ cursor = 0
    /\ ignore_cursor = None
    /\ trie_syntax = Trie_from_syntax
    /\ variant_id = 0
    /\ completions = << >>
    /\ text = << >>
    /\ primary = 0
    /\ changed = FALSE
    /\ events = << >>
    /\ pc = "input"
    /\ popup = FALSE
    /\ consumed = None
    /\ fault = "none"

Init ==
    /\ types = EmptyMap
    /\ globals = EmptyMap
    /\ hashOrder = << >>
    /\ q_prefix = None
    /\ q_result = << >>
    /\ q_methods = << >>
    /\ InitCompleter
    /\ trie_user \in { None, Some(Trie_default) }

Next ==
    \/ \E keys \in KeySets : HandleInput(keys)
    \/ WidgetApplyEvents
    \/ WidgetType
    \/ WidgetBackspace
    \/ WidgetDelete
    \/ WidgetMove
    \/ WidgetIdle
    \/ \E has_focus \in Focus, secondary \in { primary, Len(text) } :
           Show(has_focus, secondary)
    \/ Completer_register_trait_type
    \/ Completer_register_global

Spec == Init /\ [][Next]_vars

(***************************************************************************)
(* Committing a snippet: the host registered the global "a" with a snippet *)
(* drawn from SnippetTexts and the user typed "a"; Tab then commits the    *)
(* global, the widget applies the edit and show resolves the new prefix.   *)
(***************************************************************************)
SnippetTexts == SeqsUpTo({ "a", "$", NotSign }, MaxSnippet)

InitSnippet ==
    /\ types = EmptyMap
    /\ \E s \in SnippetTexts :
           globals = MapInsert(EmptyMap, << "a" >>, with_snippet(<< "a" >>, s))
    /\ hashOrder = << >>
    /\ q_prefix = None
    /\ q_result = << >>
    /\ q_methods = << >>
    /\ prefix = << "a" >>
    /\ prefix_range = << 0, 1 >>
    /\ cursor = 1
    /\ ignore_cursor = None
    /\ trie_syntax = Trie_from_syntax
    /\ trie_user = None
    /\ variant_id = 0
    /\ completions = << >>
    /\ text = << "a" >>
    /\ primary = 1
    /\ changed = FALSE
    /\ events = << >>
    /\ pc = "input"
    /\ popup = FALSE
    /\ consumed = None
    /\ fault = "none"

NextSnippet ==
    \/ \E keys \in { { "Tab" } } : HandleInput(keys)
    \/ WidgetApplyEvents
    \/ \E has_focus \in { TRUE } : Show(has_focus, primary)

SpecSnippet == InitSnippet /\ [][NextSnippet]_vars

(***************************************************************************)
(* The registry on its own: any registration calls, any call of            *)
(* get_completions.                                                        *)
(***************************************************************************)
\* the prefixes asked for: plain names, and [pad] left separator [right],
\* which covers both separators, a '.' and a ':' together, and a left part
\* that needs trimming
QueryPads == { << >>, << " " >> }

QueryLefts == { << "a" >>, << "a", "b" >>, << "b" >> }

QuerySeparators == { << "." >>, << ":" >>, << ":", "." >>, << " ", "." >> }

QueryRights == { << >>, << "b" >>, << "a" >> }

Prefixes ==
    { << >>, << " " >> }
    \cup { pad \o l : pad \in QueryPads, l \in QueryLefts }
    \cup { l \o sep \o r :
             l \in QueryLefts, sep \in QuerySeparators, r \in QueryRights }
    \cup { << " ", "a" >> \o sep \o r :
             sep \in QuerySeparators, r \in QueryRights }

\* q_prefix and q_result hold the last call made on the registry as it is
\* now: a registration forgets them
ForgetQuery ==
    /\ q_prefix' = None
    /\ q_result' = << >>
    /\ UNCHANGED << q_methods, completerVars, hostVars >>

RegisterTypeSimple ==
    \E t \in TypeNames : \E m \in MethodLists(t) :
        /\ register_type_simple(t, m)
        /\ ForgetQuery

RegisterTypeWithSnippetsAndStyle ==
    \E t \in TypeNames, st \in { Dot, Colon } : \E m \in MethodLists(t) :
        /\ register_type_with_snippets_and_style(t, m, st)
        /\ ForgetQuery

RegisterGlobal ==
    \E n \in GlobalNames, sn \in GlobalSnippets, d \in GlobalDocs :
        /\ register_global(n, sn, d)
        /\ ForgetQuery

GetCompletions ==
    \E p \in Prefixes :
        /\ q_prefix' = Some(p)
        /\ q_result' = get_completions(p)
        /\ UNCHANGED << q_methods, registryVars, completerVars, hostVars >>

InitRegistry ==
    /\ types = EmptyMap
    /\ globals = EmptyMap
    /\ hashOrder = << >>
    /\ q_prefix = None
    /\ q_result = << >>
    /\ q_methods = << >>
    /\ InitCompleter
    /\ trie_user = None

NextRegistry ==
    \/ RegisterTypeSimple
    \/ RegisterTypeWithSnippetsAndStyle
    \/ RegisterGlobal
    \/ GetCompletions

SpecRegistry == InitRegistry /\ [][NextRegistry]_vars

(***************************************************************************)
(* Member lists that repeat a name: the type "a" is registered, again and  *)
(* again, from lists over MemberTuples, in which the name "b" comes with   *)
(* two different snippets; q_methods keeps the list last given.            *)
(***************************************************************************)
MemberTuples == MethodTuples \cup { << << "b" >>, << "b" >>, "D3" >> }

MemberLists == SeqsUpTo(MemberTuples, MaxMethods)

MemberQueries ==
    { << "a", "." >>, << "a", ".", "b" >>, << "a", ":" >>, << "a", ":", "a" >> }

RegisterMembers ==
    \E m \in MemberLists, st \in { Dot, Colon } :
        /\ register_type_with_snippets_and_style(<< "a" >>, m, st)
        /\ q_methods' = m
        /\ q_prefix' = None
        /\ q_result' = << >>
        /\ UNCHANGED << completerVars, hostVars >>

QueryMembers ==
    \E p \in MemberQueries :
        /\ q_prefix' = Some(p)
        /\ q_result' = get_completions(p)
        /\ UNCHANGED << q_methods, registryVars, completerVars, hostVars >>

NextMembers == RegisterMembers \/ QueryMembers

SpecMembers == InitRegistry /\ [][NextMembers]_vars

(***************************************************************************)
(* Member names that hold a '.': the type "a" is registered from lists     *)
(* over DottedTuples and asked for prefixes that hold both separators.     *)
(***************************************************************************)
DottedTuples == MethodTuples \cup { << << "b", ".", "a" >>, << "b", ".", "a" >>, "D4" >> }

DottedLists == SeqsUpTo(DottedTuples, MaxMethods)

SeparatorQueries ==
    { << "a", ":", "b", "." >>, << "a", ":", "b", ".", "a" >>,
      << "a", ":", "." >>, << "a", ".", "b", ":" >>,
      << "a", ":", "b" >>, << "a", ".", "b" >>, << "b", ".", "a", ":" >> }

RegisterDotted ==
    \E m \in DottedLists, st \in { Dot, Colon } :
        /\ register_type_with_snippets_and_style(<< "a" >>, m, st)
        /\ q_methods' = m
        /\ q_prefix' = None
        /\ q_result' = << >>
        /\ UNCHANGED << completerVars, hostVars >>

QueryBothSeparators ==
    \E p \in SeparatorQueries :
        /\ q_prefix' = Some(p)
        /\ q_result' = get_completions(p)
        /\ UNCHANGED << q_methods, registryVars, completerVars, hostVars >>

NextSeparators == RegisterDotted \/ QueryBothSeparators

SpecSeparators == InitRegistry /\ [][NextSeparators]_vars

(***************************************************************************)
(* Properties of get_completions, stated on the last call (q_prefix,       *)
(* q_result) under SpecRegistry.                                           *)
(***************************************************************************)
\* where the prefix is split: at its last '.', or, when it holds no '.',
\* at its last ':'; 0 when it holds neither
SplitIndex(p) ==
    IF contains(p, ".") THEN LastIndex(p, ".") ELSE LastIndex(p, ":")

SplitLeft(p) == trim(SubSeq(p, 1, SplitIndex(p) - 1))

SplitRight(p) == SubSeq(p, SplitIndex(p) + 1, Len(p))

\* the prefix splits and its left part, trimmed, is a registered type
MemberSplitApplies(p) == SplitIndex(p) > 0 /\ SplitLeft(p) \in DOMAIN types

\* the members of type t whose name starts with r
Matching(t, r) == { m \in DOMAIN types[t].items : starts_with(m, r) }

Queried == is_some(q_prefix)

\* C1: when the prefix splits at a separator into a registered type name T
\* (after trimming) and a right part r, the result holds exactly one entry
\* per member of T whose name starts with r, each carrying that member's
\* item, and nothing else -- also when no member matches.
C1_MemberBranchExact ==
    (Queried /\ MemberSplitApplies(unwrap(q_prefix))) =>
        LET t == SplitLeft(unwrap(q_prefix))
            M == Matching(t, SplitRight(unwrap(q_prefix)))
        IN  /\ Len(q_result) = Cardinality(M)
            /\ \A m \in M : \E k \in 1..Len(q_result) :
                   q_result[k][2] = types[t].items[m]
            /\ \A k \in 1..Len(q_result) :
                   /\ q_result[k][2].display \in M
                   /\ q_result[k][2] = types[t].items[q_result[k][2].display]

\* a member query that some members match and some do not, made while a
\* global is registered
C1_Witness ==
    /\ Queried
    /\ MemberSplitApplies(unwrap(q_prefix))
    /\ globals # EmptyMap
    /\ LET t == SplitLeft(unwrap(q_prefix))
           M == Matching(t, SplitRight(unwrap(q_prefix)))
       IN  M # {} /\ M # DOMAIN types[t].items /\ Len(q_result) = 1

\* C2: every entry of the member branch is displayed as type name, then the
\* separator of the style the type was registered with, then the member
\* name, whichever separator the prefix holds; its item is the one
\* registered for that member.
C2_DisplayUsesRegisteredSeparator ==
    (Queried /\ MemberSplitApplies(unwrap(q_prefix))) =>
        LET t == SplitLeft(unwrap(q_prefix))
            sep == IF types[t].syntax_style = Colon THEN ":" ELSE "."
        IN  \A k \in 1..Len(q_result) :
                \E m \in DOMAIN types[t].items :
                    /\ q_result[k][1] = t \o << sep >> \o m
                    /\ q_result[k][2] = types[t].items[m]

\* a colon-style type asked for with a '.', with a member found
C2_Witness ==
    /\ Queried
    /\ MemberSplitApplies(unwrap(q_prefix))
    /\ unwrap(q_prefix)[SplitIndex(unwrap(q_prefix))] = "."
    /\ types[SplitLeft(unwrap(q_prefix))].syntax_style = Colon
    /\ Len(q_result) > 0
    /\ contains(q_result[1][1], ":")

\* C9: when no member split applies, the result is one bare item per type
\* name starting with the prefix, followed by one entry per global name
\* starting with the prefix carrying the registered item; every type entry
\* precedes every global entry; the empty prefix returns every type and
\* every global.
C9_TypeNamesThenGlobals ==
    (Queried /\ ~MemberSplitApplies(unwrap(q_prefix))) =>
        LET p == unwrap(q_prefix)
            T == { t \in DOMAIN types : starts_with(t, p) }
            G == { g \in DOMAIN globals : starts_with(g, p) }
            n == Cardinality(T)
        IN  /\ Len(q_result) = n + Cardinality(G)
            /\ { q_result[k][1] : k \in 1..n } = T
            /\ \A k \in 1..n :
                   q_result[k][2] = [display |-> q_result[k][1],
                                     snippet |-> None, documentation |-> None]
            /\ { q_result[k][1] : k \in (n+1)..Len(q_result) } = G
            /\ \A k \in (n+1)..Len(q_result) :
                   q_result[k][2] = globals[q_result[k][1]]
            /\ (p = << >> => Len(q_result) =
                   Cardinality(DOMAIN types) + Cardinality(DOMAIN globals))

\* a plain prefix that matches two types and a global carrying a snippet,
\* while another type or global does not match
C9_Witness ==
    /\ Queried
    /\ ~MemberSplitApplies(unwrap(q_prefix))
    /\ unwrap(q_prefix) # << >>
    /\ Len(q_result) = 3
    /\ is_some(q_result[3][2].snippet)
    /\ Cardinality(DOMAIN types) = 2

\* C10 as the specification states it: while no type is registered with
\* colon style, a prefix T:m with T registered is answered by type-name and
\* global matching only, so every entry's name starts with the prefix.
C10_ColonIgnoredWithoutColonType ==
    (Queried /\ ~has_colon_syntax /\ ~contains(unwrap(q_prefix), ".")
        /\ MemberSplitApplies(unwrap(q_prefix))) =>
        \A k \in 1..Len(q_result) : starts_with(q_result[k][1], unwrap(q_prefix))

\* C10 as the code has it: get_completions splits a prefix without '.' at
\* its last ':' whether or not any type is registered with colon style; for
\* T:m with T a registered dot-style type it returns the members of T
\* starting with m, displayed as T.member.
C10_ColonSplitsRegardlessOfStyles ==
    (Queried /\ ~has_colon_syntax /\ ~contains(unwrap(q_prefix), ".")
        /\ MemberSplitApplies(unwrap(q_prefix))) =>
        LET t == SplitLeft(unwrap(q_prefix))
            M == Matching(t, SplitRight(unwrap(q_prefix)))
        IN  { q_result[k][1] : k \in 1..Len(q_result) }
                = { t \o << "." >> \o m : m \in M }

\* "a:b" asked of a registry whose only types are dot-style, and a member
\* of "a" is returned
C10_Witness ==
    /\ Queried
    /\ ~has_colon_syntax
    /\ ~contains(unwrap(q_prefix), ".")
    /\ MemberSplitApplies(unwrap(q_prefix))
    /\ SplitRight(unwrap(q_prefix)) # << >>
    /\ Len(q_result) > 0

(***************************************************************************)
(* Claims about the completer in its host.                                 *)
(***************************************************************************)
\* handle_input has just committed the selected entry with Tab
Committed ==
    /\ pc = "widget"
    /\ fault = "none"
    /\ consumed = Some("Tab")
    /\ variant_id < Len(completions)

SelectedDisplay == completions[variant_id + 1][1]

SelectedItem == completions[variant_id + 1][2]

\* the number of Backspace events of the planned edit
Backspaces == Cardinality({ i \in 1..Len(events) : events[i] = Backspace })

\* the text of the planned edit's Paste event
Pasted ==
    events[CHOOSE i \in 1..Len(events) : events[i][1] = "Paste"][2]

\* the selected entry is a member of the registered type t, displayed with
\* the separator of t's style
MemberOf(t) ==
    SelectedDisplay \in
        { t \o << correct_separator(types[t].syntax_style) >> \o m :
            m \in DOMAIN types[t].items }

\* C3: on Tab on a member candidate, displayed with its type's separator
\* ('.' or ':'), the planned edit deletes exactly the characters of the
\* member part typed after that separator and inserts the snippet if the
\* item has one, else the member name; the type name and the separator
\* already typed are not deleted.
C3_MemberCommitKeepsTypeName ==
    \A t \in DOMAIN types :
        (/\ Committed
         /\ MemberOf(t)
         /\ contains(prefix, correct_separator(types[t].syntax_style))) =>
            LET sep == correct_separator(types[t].syntax_style)
                split == rsplit_once(prefix, sep)
                name == unwrap(rsplit_once(SelectedDisplay, sep))[2]
            IN  /\ Backspaces = Len(unwrap(split)[2])
                /\ Pasted = replace(IF is_some(SelectedItem.snippet)
                                    THEN unwrap(SelectedItem.snippet)
                                    ELSE name, "$")

\* C4: on Tab on a non-member candidate the planned edit deletes
\* context.end - context.start characters, which is the whole raw prefix,
\* and inserts the item's snippet if it has one, else its display text.
C4_NonMemberCommitReplacesPrefix ==
    (Committed /\ ~contains(SelectedDisplay, ".") /\ ~contains(SelectedDisplay, ":")) =>
        /\ Backspaces = prefix_range[2] - prefix_range[1]
        /\ Backspaces = Len(prefix)
        /\ Pasted = replace(insert_text(SelectedItem), "$")

\* C5: for an insert text with the marker '$' first at character p, the
\* inserted text is the text with every '$' removed, and once the widget
\* has applied the edit the cursor stands p characters after the start of
\* the inserted text, exactly where the first marker was.
C5_CursorLandsOnFirstMarker ==
    (/\ pc = "show"
     /\ changed
     /\ variant_id < Len(completions)
     /\ ~contains(SelectedDisplay, ".")
     /\ contains(insert_text(SelectedItem), "$")
     /\ prefix_range[2] - prefix_range[1] = Len(prefix)) =>
        LET s == insert_text(SelectedItem)
            stripped == replace(s, "$")
            start == cursor - Len(prefix)
        IN  /\ SubSeq(text, start + 1, start + Len(stripped)) = stripped
            /\ primary = start + FirstIndex(s, "$") - 1

\* handle_input has just recomputed the candidate list for the prefix
Recomputed ==
    /\ pc = "widget"
    /\ prefix # << >>
    /\ (ignore_cursor # Some(cursor) \/ consumed = Some("Escape"))

\* C6: when a trie and the registry both produce a candidate with the same
\* display for the current prefix, the merged list has exactly one entry
\* with that display and it is the registry's item, with its snippet and
\* documentation.
C6_RegistryItemReplacesTrieItem ==
    Recomputed =>
        \A i \in 1..Len(get_completions(prefix)) :
            LET e == get_completions(prefix)[i]
                at == { k \in 1..Len(completions) : completions[k][1] = e[1] }
            IN  /\ Cardinality(at) = 1
                /\ \A k \in at : completions[k][2] = e[2]

\* C7 as stated: after Escape at cursor offset c, while the recorded
\* cursor offset stays c, the candidate list is empty after every pass of
\* handle_input and show.
C7_DismissedListIsEmpty ==
    (pc = "input" /\ ignore_cursor = Some(cursor)) => completions = << >>

\* C7 as the code has it: after Escape at cursor offset c, while the
\* recorded cursor offset stays c, no popup is shown after any pass,
\* handle_input consumes no key and pushes no event, and the candidate
\* list stays as it was when Escape was pressed: it is neither emptied nor
\* recomputed, whatever changes the content without moving the cursor.
C7_DismissedStaysHidden ==
    /\ []((pc = "input" /\ ignore_cursor = Some(cursor)) => ~popup)
    /\ [][ignore_cursor = Some(cursor) =>
            /\ (pc = "input" =>
                    /\ consumed' = None
                    /\ events' = << >>
                    /\ completions' = completions
                    /\ ignore_cursor' = ignore_cursor)
            /\ ((pc = "show" /\ cursor' = cursor) =>
                    /\ completions' = completions
                    /\ ignore_cursor' = ignore_cursor
                    /\ ~popup')]_vars

\* dismissed, a pass later: the list is still the one Escape left and no
\* popup is shown
C7_Witness ==
    /\ pc = "input"
    /\ ignore_cursor = Some(cursor)
    /\ completions # << >>
    /\ prefix # << >>
    /\ ~popup

\* C8: the ignore marker always names the recorded cursor offset; it is
\* cleared only by a pass of show in which the host reports another cursor
\* offset, and every such pass clears it; with the marker clear,
\* handle_input recomputes the candidate list for the prefix again.
C8_MarkerClearedOnlyByCursorMove ==
    /\ [](ignore_cursor \in { None, Some(cursor) })
    /\ [][(ignore_cursor # None /\ ignore_cursor' = None) =>
            (pc = "show" /\ cursor' # cursor)]_vars
    /\ [][cursor' # cursor => ignore_cursor' = None]_vars
    /\ []((pc = "widget" /\ prefix # << >> /\ ignore_cursor = None) =>
            completions = MergeCompletions(CandidateChain))

\* the marker is set and the host reports another cursor offset to show
C8_Witness ==
    /\ pc = "show"
    /\ ignore_cursor = Some(cursor)
    /\ primary # cursor
    /\ completions # << >>

(***************************************************************************)
(* Claims about the registry, continued.                                   *)
(***************************************************************************)
\* the prefix splits at a separator and its left part, trimmed, is not a
\* registered type
UnknownTypeSplit(p) == SplitIndex(p) > 0 /\ SplitLeft(p) \notin DOMAIN types

\* C11 as stated: a member-access query whose split succeeds but whose
\* left part is not a registered type returns an empty list and does not
\* fall through to type-name and global matching.
C11_UnknownTypeReturnsNothing ==
    (Queried /\ UnknownTypeSplit(unwrap(q_prefix))) => q_result = << >>

\* C11 as the code has it: a member-access query whose split succeeds but
\* whose left part is not a registered type falls through to name
\* matching on the whole prefix, separator included: it returns the type
\* names and the globals that start with the prefix, and is empty only
\* when there is none.
C11_UnknownTypeFallsThrough ==
    (Queried /\ UnknownTypeSplit(unwrap(q_prefix))) =>
        { q_result[k] : k \in 1..Len(q_result) } =
            { << t, CompletionItem_new(t) >> :
                t \in { x \in DOMAIN types : starts_with(x, unwrap(q_prefix)) } }
            \cup { << g, globals[g] >> :
                g \in { x \in DOMAIN globals : starts_with(x, unwrap(q_prefix)) } }

\* "a." asked while "a" is not a type and the global "a.b" is registered
C11_Witness ==
    /\ Queried
    /\ UnknownTypeSplit(unwrap(q_prefix))
    /\ Len(q_result) = 1
    /\ contains(q_result[1][1], ".")
    /\ q_result[1][1] \in DOMAIN globals

\* the prefix names the registered colon-style type t before a '.'
DotQueryOfColonType(p) ==
    /\ contains(p, ".")
    /\ MemberSplitApplies(p)
    /\ types[SplitLeft(p)].syntax_style = Colon

\* C12 as stated: for a type registered with colon style, a prefix with
\* '.' between the type name and the member prefix does not reach the
\* member branch, so no member of the type is returned.
C12_DotQueryMissesColonType ==
    (Queried /\ DotQueryOfColonType(unwrap(q_prefix))) =>
        \A k \in 1..Len(q_result) :
            q_result[k][1] \notin
                { SplitLeft(unwrap(q_prefix)) \o << ":" >> \o m :
                    m \in DOMAIN types[SplitLeft(unwrap(q_prefix))].items }

\* C12 as the code has it: for a type registered with colon style, a
\* prefix with '.' and a prefix with ':' between the type name and the
\* member prefix both reach the member branch; either returns the members
\* starting with the member prefix, displayed with ':'.
C12_EitherSeparatorReachesColonType ==
    (/\ Queried
     /\ MemberSplitApplies(unwrap(q_prefix))
     /\ types[SplitLeft(unwrap(q_prefix))].syntax_style = Colon) =>
        LET t == SplitLeft(unwrap(q_prefix))
        IN  { q_result[k][1] : k \in 1..Len(q_result) } =
                { t \o << ":" >> \o m :
                    m \in Matching(t, SplitRight(unwrap(q_prefix))) }

\* "a.b" asked of the colon-style type "a", and a member comes back
C12_Witness ==
    /\ Queried
    /\ DotQueryOfColonType(unwrap(q_prefix))
    /\ ~contains(unwrap(q_prefix), ":")
    /\ SplitRight(unwrap(q_prefix)) # << >>
    /\ Len(q_result) > 0

(***************************************************************************)
(* Claims about the completer in its host, continued.                      *)
(***************************************************************************)
\* C13: once the edit planned by Tab has been applied to the buffer and
\* show has resolved the prefix again at the new cursor position, the
\* prefix is empty: the completion is consumed.
C13_CommitConsumesPrefix ==
    (pc = "input" /\ fault = "none" /\ consumed = Some("Tab")) => prefix = << >>

\* the displays of a list of entries, in the list's order
Displays(entries) == [k \in 1..Len(entries) |-> entries[k][1]]

\* the displays of the chained trie and registry items in the order in
\* which each is first seen
RECURSIVE FirstSeen(_)
FirstSeen(displays) ==
    IF displays = << >> THEN << >>
    ELSE LET n == Len(displays)
             before == FirstSeen(SubSeq(displays, 1, n - 1))
         IN  IF \E j \in 1..(n - 1) : displays[j] = displays[n]
             THEN before
             ELSE Append(before, displays[n])

\* C14 as stated: the merged list is in the order in which the displays
\* were first seen, syntax-trie matches, then learned-trie matches, then
\* registry-only matches; it is not sorted.
C14_MergedInFirstSeenOrder ==
    Recomputed => Displays(completions) = FirstSeen(Displays(CandidateChain))

\* C14 as the code has it: the merged list holds each display of the
\* chained trie and registry items once and is sorted by display in
\* ascending string order, wherever the entry came from.
C14_MergedSortedByDisplay ==
    Recomputed =>
        /\ { completions[k][1] : k \in 1..Len(completions) } =
               { CandidateChain[k][1] : k \in 1..Len(CandidateChain) }
        /\ \A k \in 1..(Len(completions) - 1) :
               StrLess(completions[k][1], completions[k + 1][1])

\* a registry entry sorted in front of a trie entry that was seen first
C14_Witness ==
    /\ Recomputed
    /\ Len(completions) >= 2
    /\ Displays(completions) # FirstSeen(Displays(CandidateChain))
    /\ get_completions(prefix) # << >>

(***************************************************************************)
(* Claims about the registry, continued.                                   *)
(***************************************************************************)
\* C15: the entries get_completions returns are in sorted key order,
\* whatever the order of the registrations: the members of a type in
\* ascending order of member name; otherwise the type names in ascending
\* order, then the globals in ascending order.
C15_ResultInSortedKeyOrder ==
    Queried =>
        LET p == unwrap(q_prefix)
            n == IF MemberSplitApplies(p) THEN 0
                 ELSE Cardinality({ t \in DOMAIN types : starts_with(t, p) })
        IN  \A k \in 1..(Len(q_result) - 1) :
                k # n => StrLess(q_result[k][2].display,
                                 q_result[k + 1][2].display)

\* info is what one registration of a type with the member list m leaves:
\* one item per name of m, displayed by that name; either every item is
\* bare and the style is dot (register_type_simple), or every item carries
\* a snippet and documentation given for its name in m
FreshFrom(info, m) ==
    /\ DOMAIN info.items = { m[i][1] : i \in 1..Len(m) }
    /\ \/ /\ info.syntax_style = Dot
          /\ \A name \in DOMAIN info.items :
                 info.items[name] = CompletionItem_new(name)
       \/ \A name \in DOMAIN info.items :
              \E i \in 1..Len(m) :
                  /\ m[i][1] = name
                  /\ info.items[name] =
                         with_snippet_and_docs(name, m[i][2], m[i][3])

LastGiven(name) ==
    CHOOSE i \in 1..Len(q_methods) :
        /\ q_methods[i][1] = name
        /\ \A j \in (i + 1)..Len(q_methods) : q_methods[j][1] # name

\* C17: whatever lists the type was registered from, also lists that
\* repeat a member name, a member query returns no two entries with the
\* same display, and the entry of a member carries the snippet and the
\* documentation of the last tuple that named it in the list last given.
C17_OneEntryPerMemberLastGiven ==
    (Queried /\ MemberSplitApplies(unwrap(q_prefix))) =>
        /\ \A j, k \in 1..Len(q_result) :
               j # k => q_result[j][1] # q_result[k][1]
        /\ \A k \in 1..Len(q_result) :
               LET name == q_result[k][2].display
               IN  /\ \E i \in 1..Len(q_methods) : q_methods[i][1] = name
                   /\ q_result[k][2] =
                          with_snippet_and_docs(name,
                              q_methods[LastGiven(name)][2],
                              q_methods[LastGiven(name)][3])

\* the list last given names a member twice with different snippets, and
\* the query returned that member
C17_Witness ==
    /\ Queried
    /\ MemberSplitApplies(unwrap(q_prefix))
    /\ Len(q_methods) = 2
    /\ q_methods[1][1] = q_methods[2][1]
    /\ q_methods[1][2] # q_methods[2][2]
    /\ \E k \in 1..Len(q_result) : q_result[k][2].display = q_methods[1][1]

(***************************************************************************)
(* Claims about the completer in its host, continued.                      *)
(***************************************************************************)
\* C18: a pass of handle_input that starts with an empty prefix asks no
\* trie for completions: it leaves the candidate list, the selection index
\* and the ignore marker as they were, consumes no key and pushes no
\* event.
C18_EmptyPrefixSkipsMerge ==
    [][(pc = "input" /\ pc' = "widget" /\ prefix = << >>) =>
            /\ completions' = completions
            /\ variant_id' = variant_id
            /\ ignore_cursor' = ignore_cursor
            /\ consumed' = None
            /\ events' = << >>]_vars

\* handle_input has run on an empty prefix in a buffer that is not empty,
\* and the candidate list is still empty although the tries hold words
C18_Witness ==
    /\ pc = "widget"
    /\ prefix = << >>
    /\ text # << >>
    /\ completions = << >>
    /\ consumed = None
    /\ trie_syntax.words # {}

\* the tries handle_input asks
Tries ==
    { trie_syntax } \cup (IF is_some(trie_user) THEN { unwrap(trie_user) } ELSE {})

\* C19: for a non-empty prefix, find_completions on a trie returns each
\* suffix once, every returned suffix makes the prefix a pushed word, and
\* every pushed word that starts with the prefix has its suffix returned
\* (so nothing is returned when no word starts with it); pushing a word
\* again changes nothing; every candidate built from a trie is a pushed
\* word that starts with the prefix.
C19_TrieReturnsExactSuffixes ==
    prefix # << >> =>
        \A trie \in Tries :
            LET r == find_completions(trie, prefix)
            IN  /\ \A j, k \in 1..Len(r) : j # k => r[j] # r[k]
                /\ \A k \in 1..Len(r) : prefix \o r[k] \in trie.words
                /\ \A w \in trie.words :
                       starts_with(w, prefix) =>
                           \E k \in 1..Len(r) : prefix \o r[k] = w
                /\ \A w \in trie.words : push(trie, w) = trie
                /\ \A k \in 1..Len(TrieItems(r)) :
                       /\ TrieItems(r)[k][1] \in trie.words
                       /\ starts_with(TrieItems(r)[k][1], prefix)

\* the learned trie holds a word that starts with the prefix and the
\* syntax trie holds none
C19_Witness ==
    /\ Recomputed
    /\ is_some(trie_user)
    /\ find_completions(unwrap(trie_user), prefix) # << >>
    /\ find_completions(trie_syntax, prefix) = << >>
    /\ completions # << >>

\* C20: on every step in which the recorded cursor offset changes, the
\* candidate list is emptied, the selection index is 0 and the ignore marker
\* is none afterwards, no popup is shown, and the prefix afterwards is either
\* empty or the one resolved from the text before the new offset.
C20_CursorMoveResetsTransientState ==
    [][cursor' # cursor =>
          /\ completions' = << >>
          /\ variant_id' = 0
          /\ ignore_cursor' = None
          /\ popup' = FALSE
          /\ \/ prefix' = << >>
             \/ prefix' = ResolvePrefix(SubSeq(text', 1, cursor')).prefix]_vars

\* show is about to run with a cursor offset other than the recorded one
\* while a candidate beyond the first is selected
C20_Witness ==
    /\ pc = "show"
    /\ fault = "none"
    /\ primary # cursor
    /\ completions # << >>
    /\ variant_id > 0
    /\ prefix # << >>

\* the second end of the selection the host can report
Secondaries == { primary, Len(text) }

\* the pass has the focus and is not stopped by the ignore marker, so it
\* reaches the prefix extraction
ReachesExtraction(has_focus) ==
    has_focus /\ ~(cursor = primary /\ ignore_cursor = Some(primary))

\* the character right after the cursor is alphanumeric or '_' and the
\* selection does not extend forward past the cursor
ClosedContext(secondary) ==
    /\ primary < Len(text)
    /\ (is_alphanumeric(text[primary + 1]) \/ text[primary + 1] = "_")
    /\ secondary <= primary

\* C21: a show pass that reaches the prefix extraction in a closed context
\* leaves an empty prefix whose start and end are the cursor offset and
\* shows no popup; in any other context it takes the prefix extraction on
\* the text before the cursor.
C21_ClosedContextGivesEmptyPrefix ==
    [][\A has_focus \in Focus, secondary \in Secondaries :
          (Show(has_focus, secondary) /\ ReachesExtraction(has_focus)) =>
              IF ClosedContext(secondary)
              THEN /\ prefix' = << >>
                   /\ prefix_range' = << primary, primary >>
                   /\ popup' = FALSE
                   /\ fault' = "none"
              ELSE LET r == ResolvePrefix(SubSeq(text, 1, primary))
                   IN  IF r.panics
                       THEN fault' = "slice"
                       ELSE /\ prefix' = r.prefix
                            /\ prefix_range' = << r.context_start, primary >>]_vars

\* after a pass in a closed context: the cursor stands between two word
\* characters, the prefix is empty and its range is the cursor offset
C21_Witness ==
    /\ pc = "input"
    /\ fault = "none"
    /\ cursor = primary
    /\ cursor > 0
    /\ cursor < Len(text)
    /\ is_alphanumeric(text[cursor])
    /\ is_alphanumeric(text[cursor + 1])
    /\ prefix = << >>
    /\ prefix_range = << cursor, cursor >>
    /\ ~popup

\* a character that may be part of a prefix: alphanumeric, '_', '.', or ':'
\* while some registered type uses colon style
PrefixChar(c) ==
    \/ is_alphanumeric(c)
    \/ c = "_"
    \/ c = "."
    \/ (c = ":" /\ \E t \in DOMAIN types : types[t].syntax_style = Colon)

\* the position just after the nearest character before the offset that is
\* not a prefix character, counted in characters like the offset; 0 when
\* there is none
StartBefore(offset) ==
    LET stops == { k \in 1..offset : ~PrefixChar(text[k]) }
    IN  IF stops = {} THEN 0 ELSE CHOOSE k \in stops : \A j \in stops : j <= k

\* C22: a show pass that extracts the prefix in an open context without a
\* fault records as start the position just after the nearest character
\* before the cursor that is not a prefix character (0 when there is
\* none), as end the cursor offset, and as prefix the text between them.
C22_PrefixRunsFromStartToCursor ==
    [][\A has_focus \in Focus, secondary \in Secondaries :
          ( /\ Show(has_focus, secondary)
            /\ ReachesExtraction(has_focus)
            /\ ~ClosedContext(secondary)
            /\ fault' = "none" ) =>
              /\ prefix_range' = << StartBefore(primary), primary >>
              /\ prefix' = SubSeq(text, StartBefore(primary) + 1, primary)]_vars

\* k advances in a row on a list whose last index is last
RECURSIVE Advances(_, _, _)
Advances(k, id, last) ==
    IF k = 0 THEN id ELSE Advances(k - 1, advance(id, last), last)

\* C23: when ArrowDown or ArrowUp is handled with the selection index
\* inside the merged list of n entries, the index becomes (i + 1) mod n or
\* (i - 1) mod n; from any index of that list n advances in a row give the
\* index back, and so does an advance followed by a retreat.
C23_NavigationWraps ==
    [][( /\ pc = "input"
         /\ pc' = "widget"
         /\ consumed' \in { Some("ArrowDown"), Some("ArrowUp") }
         /\ variant_id < Len(completions') ) =>
           LET n == Len(completions')
           IN  /\ consumed' = Some("ArrowDown") => variant_id' = (variant_id + 1) % n
               /\ consumed' = Some("ArrowUp") => variant_id' = (variant_id + n - 1) % n
               /\ \A i \in 0..(n - 1) :
                     /\ Advances(n, i, n - 1) = i
                     /\ retreat(advance(i, n - 1), n - 1) = i
                     /\ advance(retreat(i, n - 1), n - 1) = i]_vars

\* ArrowDown was handled on the last of several candidates and the
\* selection is back on the first
C23_Witness ==
    /\ pc = "widget"
    /\ consumed = Some("ArrowDown")
    /\ Len(completions) >= 2
    /\ variant_id = 0

\* C24: a handle_input pass with keys pressed that finds no candidate
\* consumes no key, pushes no event and leaves the selection index, the
\* ignore marker and the prefix as they were; a pass that takes Tab while
\* the selection index is outside the candidate list pushes no event.
C24_KeysOnEmptyListAreNoOps ==
    [][\A keys \in KeySets :
          (HandleInput(keys) /\ keys # {}) =>
              /\ completions' = << >> =>
                    /\ consumed' = None
                    /\ events' = << >>
                    /\ variant_id' = variant_id
                    /\ ignore_cursor' = ignore_cursor
                    /\ prefix' = prefix
                    /\ fault' = "none"
              /\ (consumed' = Some("Tab") /\ variant_id >= Len(completions')) =>
                    /\ events' = << >>
                    /\ fault' = "none"]_vars

\* handle_input looked for candidates of a non-empty prefix and found none
C24_Witness ==
    /\ pc = "widget"
    /\ fault = "none"
    /\ prefix # << >>
    /\ ignore_cursor # Some(cursor)
    /\ completions = << >>
    /\ consumed = None
    /\ events = << >>

\* C25: no pass of show or handle_input ends in a fault, whatever the
\* buffer, the cursor offset, the registry, the tries and the keys are.
C25_NoPassFaults == fault = "none"

\* the edit planned for the selected entry
SelectedPlan == PlanEdit(SelectedDisplay, SelectedItem)

\* C26: the events pushed on a commit are, in this order, delete_count
\* Backspaces, one Paste of the insert text without its markers, and then
\* only ArrowLeft moves, none of them when the insert text has no marker;
\* and when the widget has applied an edit without moves the cursor stands
\* right after the pasted text.
C26_CommitIsDeleteInsertMove ==
    /\ [](Committed =>
            LET d == SelectedPlan.delete_count
            IN  /\ Len(events) >= d + 1
                /\ \A i \in 1..d : events[i] = Backspace
                /\ events[d + 1] = Paste(replace(SelectedPlan.insert, "$"))
                /\ \A i \in (d + 2)..Len(events) : events[i] = ArrowLeft
                /\ ~contains(SelectedPlan.insert, "$") => Len(events) = d + 1)
    /\ [][( /\ pc = "widget"
            /\ events # << >>
            /\ events' = << >>
            /\ \A i \in 1..Len(events) : events[i] # ArrowLeft ) =>
              /\ primary' >= Len(Pasted)
              /\ SubSeq(text', primary' - Len(Pasted) + 1, primary') = Pasted]_vars

\* a commit whose insert text has a marker: Backspaces, the Paste and at
\* least one ArrowLeft are pushed
C26_Witness ==
    /\ Committed
    /\ SelectedPlan.delete_count > 0
    /\ contains(SelectedPlan.insert, "$")
    /\ events[Len(events)] = ArrowLeft

\* C27: with the learned dictionary enabled, once show has handled a
\* content change the learned trie holds exactly the words of the current
\* buffer and the paths to them, so no word of an earlier content is left;
\* and the learned trie changes only in a show pass that saw the content
\* change.
C27_LearnedTrieFollowsContent ==
    /\ []((is_some(trie_user) /\ pc \in { "input", "widget" }) =>
            /\ unwrap(trie_user).words = Harvest(text)
            /\ unwrap(trie_user).nodes =
                   { << >> } \cup UNION { PathsOf(w) : w \in Harvest(text) })
    /\ [][trie_user' # trie_user => (pc = "show" /\ changed)]_vars
    /\ [][(pc = "show" /\ ~changed) => trie_user' = trie_user]_vars

\* show is about to handle a content change that removed a learned word
C27_Witness ==
    /\ pc = "show"
    /\ fault = "none"
    /\ changed
    /\ is_some(trie_user)
    /\ \E w \in unwrap(trie_user).words : w \notin Harvest(text)
    /\ Harvest(text) # {}

(***************************************************************************)
(* Claims about prefixes that hold both separators, under SpecSeparators.  *)
(***************************************************************************)
\* the part left of the last ':', trimmed
ColonLeft(p) == trim(SubSeq(p, 1, LastIndex(p, ":") - 1))

\* the part right of the last ':'
ColonRight(p) == SubSeq(p, LastIndex(p, ":") + 1, Len(p))

\* the prefix holds a '.' whose left part is not a registered type and a
\* ':' whose left part is a registered colon-style type
UnknownDotKnownColon(p) ==
    /\ contains(p, ".")
    /\ contains(p, ":")
    /\ trim(SubSeq(p, 1, LastIndex(p, ".") - 1)) \notin DOMAIN types
    /\ ColonLeft(p) \in DOMAIN types
    /\ types[ColonLeft(p)].syntax_style = Colon

\* C28: for a prefix with a '.' whose left part is not a
\* registered type and a ':' whose left part is a registered colon-style
\* type, the ':' split is applied and the members of that type that start
\* with the text after the ':' are returned.
C28_ColonSplitAfterUnknownDot ==
    (Queried /\ UnknownDotKnownColon(unwrap(q_prefix))) =>
        { q_result[k][1] : k \in 1..Len(q_result) } =
            { ColonLeft(unwrap(q_prefix)) \o << ":" >> \o m :
                m \in Matching(ColonLeft(unwrap(q_prefix)),
                               ColonRight(unwrap(q_prefix))) }

(***************************************************************************)
(* Claims about the completer in its host, continued.                      *)
(***************************************************************************)
\* the step is a pass of handle_input, of the widget or of show: the frame
\* moves on
PassStep == pc' # pc

\* C29: no pass of handle_input, of the widget or of show changes the
\* syntax trie or a type, member or global of the registry; the registry
\* changes only in a registration call, which adds or replaces entries and
\* removes none.
C29_PassesLeaveDictionariesAlone ==
    /\ [][PassStep => UNCHANGED << trie_syntax, types, globals, hashOrder >>]_vars
    /\ [][<< types, globals >> # << types, globals >>' =>
            /\ ~PassStep
            /\ DOMAIN types \subseteq DOMAIN types'
            /\ DOMAIN globals \subseteq DOMAIN globals']_vars

\* a commit has been applied to the buffer with a type and a global
\* registered: every kind of pass has run on a filled registry
C29_Witness ==
    /\ pc = "input"
    /\ fault = "none"
    /\ consumed = Some("Tab")
    /\ text # << >>
    /\ DOMAIN types # {}
    /\ DOMAIN globals # {}
    /\ trie_syntax = Trie_from_syntax

\* C30: whenever the candidate list is not empty the selection index
\* addresses one of its entries.
C30_SelectionIndexInRange ==
    completions # << >> => variant_id < Len(completions)

\* C31: between passes the recorded prefix range has its start at or before
\* its end, its end is the recorded cursor offset, and end - start is the
\* number of characters of the recorded prefix.
C31_PrefixRangeMeasuresPrefix ==
    (pc = "input" /\ fault = "none") =>
        /\ prefix_range[1] <= prefix_range[2]
        /\ prefix_range[2] = cursor
        /\ prefix_range[2] - prefix_range[1] = Len(prefix)

\* C32: a handle_input pass that starts dismissed, with the ignore marker
\* on the recorded cursor offset, consumes none of the keys pressed and
\* pushes no event, whichever of Tab, ArrowUp, ArrowDown and Escape are
\* held, and leaves the selection index, the prefix, the ignore marker and
\* the candidate list as they were.
C32_DismissedPassesKeysThrough ==
    [][\A keys \in KeySets :
          ( /\ HandleInput(keys)
            /\ keys # {}
            /\ prefix # << >>
            /\ ignore_cursor = Some(cursor) ) =>
              /\ consumed' = None
              /\ events' = << >>
              /\ variant_id' = variant_id
              /\ prefix' = prefix
              /\ ignore_cursor' = ignore_cursor
              /\ completions' = completions
              /\ fault' = "none"]_vars

\* a pass after the one that took Escape: still dismissed on a non-empty
\* prefix with a candidate beyond the first selected, and no key taken
C32_Witness ==
    /\ pc = "widget"
    /\ fault = "none"
    /\ ignore_cursor = Some(cursor)
    /\ prefix # << >>
    /\ completions # << >>
    /\ variant_id > 0
    /\ consumed = None
    /\ events = << >>

=============================================================================
